---- MODULE Spec2Model ----
(***************************************************************************)
(* A model of splicer (app.py): the scanner get_audio_files, the copier    *)
(* copy_files with its destination name index, the configuration loader    *)
(* and main, over an in-memory file system.                                *)
(*                                                                         *)
(* A file name is the sequence of its dot-separated segments               *)
(* (<<"k","wav">> is k.wav, <<"","wav">> is the hidden file .wav), a path  *)
(* is a sequence of names, a regular file is known by its size.            *)
(***************************************************************************)
EXTENDS Naturals, Sequences, FiniteSets

VARIABLES
  pc,              \* position in main / copy_files
  args,            \* argparse.Namespace: [dryrun, reconfigure]
  cfgFile,         \* content of the preference file
  config,          \* value returned by load_config
  src,             \* source tree: its entries [path, kind, size], in walk order
  destExists,      \* the destination root directory exists
  stagingExists,   \* <destination>/staging exists
  dest,            \* files under the destination root: path -> size
  file_list,       \* candidates returned by get_audio_files
  existing_files,  \* names in the destination index of copy_files
  idx,             \* position of the for loop in file_list
  log,             \* log entries emitted so far
  copied,          \* history: positions of file_list given to shutil.copy2
  acts,            \* history: what each iteration did (dry run: reported)
  run,             \* 1 in the first run of the copy step, 2 in the second
  init,            \* history: the file system when the run started
  first            \* history: outcome of the first run of the copy step

vars == <<pc, args, cfgFile, config, src, destExists, stagingExists, dest,
          file_list, existing_files, idx, log, copied, acts, run, init, first>>

\* ---------------------------------------------------------------- bounds
MaxSize == 2        \* file sizes are 1..MaxSize
MaxEntries == 3     \* entries of a source tree
Sizes == 1..MaxSize

\* ----------------------------------------------------------------- names
KWav == <<"k", "wav">>
KWavUp == <<"k", "WAV">>
SMp3 == <<"s", "Mp3">>
TAiff == <<"t", "aiff">>
NTxt == <<"n", "txt">>
DotWav == <<"", "wav">>
BareWav == <<"wav">>
KWavDot == <<"k", "wav", "">>
ATarWav == <<"a", "tar", "wav">>
DirD == <<"d">>
DirE == <<"e">>
STAGING == <<"staging">>
LIB == <<"lib">>

File == "file"
Dir == "dir"

Last(s) == s[Len(s)]

\* str.lower() on the segments the model uses
Lower(seg) ==
  CASE seg = "WAV" -> "wav"
    [] seg = "Mp3" -> "mp3"
    [] seg = "MP3" -> "mp3"
    [] seg = "AIFF" -> "aiff"
    [] OTHER -> seg

\* PurePath.suffix: the text from the last dot of the name, when that dot is
\* neither the first nor the last character of the name; else empty.
Suffix(name) ==
  IF Len(name) < 2 THEN <<>>
  ELSE IF Last(name) = "" THEN <<>>
  ELSE IF Len(name) = 2 /\ name[1] = "" THEN <<>>
  ELSE <<".", Last(name)>>

LowerSuffix(sfx) == IF sfx = <<>> THEN <<>> ELSE <<sfx[1], Lower(sfx[2])>>

audio_extensions == << <<".", "wav">>, <<".", "mp3">>, <<".", "aiff">> >>

\* ----------------------------------------------------------- source tree
Name(path) == Last(path)

Prefixes(path) == {SubSeq(path, 1, k) : k \in 1..(Len(path) - 1)}

PlainDirs == {DirD, DirE}

\* A tree: no two entries at one path; every ancestor of an entry is either a
\* plain folder (d, e: implied, not listed) or a listed directory.
WellFormed(tree) ==
  /\ \A m, n \in tree : m.path = n.path => m = n
  /\ \A n \in tree : \A q \in Prefixes(n.path) :
       \/ \A k \in 1..Len(q) : q[k] \in PlainDirs
       \/ \E m \in tree : m.path = q /\ m.kind = Dir

NodesAt(paths) == [path : paths, kind : {File, Dir}, size : Sizes]

RECURSIVE SetsUpTo(_, _)
SetsUpTo(U, k) ==
  IF k = 0 THEN {{}}
  ELSE LET prev == SetsUpTo(U, k - 1)
       IN prev \cup {t \cup {n} : t \in prev, n \in U}

Trees(nodes) == {t \in SetsUpTo(nodes, MaxEntries) : WellFormed(t)}

SeqToSet(s) == {s[k] : k \in 1..Len(s)}

\* the orders in which a directory walk may yield the entries
Orders(S) ==
  {f \in [1..Cardinality(S) -> S] : \A a, b \in 1..Cardinality(S) : f[a] = f[b] => a = b}

\* a source tree with the order in which the file system lists its entries;
\* the order stays the same as long as the tree is not modified
Walks(nodes) == UNION {Orders(t) : t \in Trees(nodes)}

\* Path.rglob("*"): every entry below the root, the implied folders included
ImpliedDirs(source) ==
  {q \in UNION {Prefixes(source[k].path) : k \in 1..Len(source)} :
     \A k \in 1..Len(source) : source[k].path # q}

RGlob(source) ==
  LET implied == {[path |-> q, kind |-> Dir, size |-> 1] : q \in ImpliedDirs(source)}
  IN (CHOOSE o \in Orders(implied) : TRUE) \o source

\* get_audio_files: the condition of the list comprehension
Matches(node, extensions) ==
  LET extensions_set == {LowerSuffix(extensions[k]) : k \in 1..Len(extensions)}
  IN LowerSuffix(Suffix(Name(node.path))) \in extensions_set

\* get_audio_files: the entries of the walk that pass the filter, in walk order
get_audio_files(source, extensions) ==
  LET Keep(n) == Matches(n, extensions)
  IN SelectSeq(RGlob(source), Keep)

\* ------------------------------------------------------------ preferences
NoneValue == "<None>"
SrcPath == "/splice"
DstPath == "/final"

JsonObject(splice, final) == [type |-> "object", splice |-> splice, final |-> final]
JsonNull == [type |-> "null", splice |-> NoneValue, final |-> NoneValue]
JsonArray == [type |-> "array", splice |-> NoneValue, final |-> NoneValue]
EmptyDict == JsonObject(NoneValue, NoneValue)

Absent == [kind |-> "absent", value |-> JsonNull]
Garbage == [kind |-> "garbage", value |-> JsonNull]
JsonText(v) == [kind |-> "json", value |-> v]

JsonObjects ==
  {JsonObject(s, f) : s \in {NoneValue, "", SrcPath}, f \in {NoneValue, "", DstPath}}

CfgFiles == {Absent, Garbage} \cup {JsonText(v) : v \in {JsonNull, JsonArray} \cup JsonObjects}

ValidCfg == JsonText(JsonObject(SrcPath, DstPath))

\* load_config: open() raises FileNotFoundError on an absent file, json.load
\* raises JSONDecodeError on text that is not JSON; both give {} and an error
\* entry. Any JSON value that parses is returned as it is.
LoadFails(file) == file.kind \in {"absent", "garbage"}

load_config(file) == IF LoadFails(file) THEN EmptyDict ELSE file.value

\* dict.get(key); None when the key is missing
Get(d, key) == IF key = "splice" THEN d.splice ELSE d.final

\* Python truth of an Optional[str]
Truthy(v) == v # NoneValue /\ v # ""

\* ------------------------------------------------------------ log entries
Entry(level, msg, name) == [level |-> level, msg |-> msg, name |-> name]
NoName == <<>>

\* ------------------------------------------------------------- copy_files
\* variant: the candidate's place in the source tree is kept under staging
DestinationPathKeepsTree(c) == <<STAGING>> \o c.path

\* staging_dir / file_path.name
DestinationPath(c) == <<STAGING, Name(c.path)>>

\* variant: only the files of the staging folder are indexed
BuildIndexStagingOnly(d) == {Name(p) : p \in {q \in DOMAIN d : q[1] = STAGING}}

\* {file.name: file for file in final_dir.rglob("*") if file.is_file()}: the keys
BuildIndex(d) == {Name(p) : p \in DOMAIN d}

\* shutil.copy2(file_path, destination_path) on a regular file
Copy2(d, c, to) == [p \in DOMAIN d \cup {to} |-> IF p = to THEN c.size ELSE d[p]]

\* variant: a skip is logged in a normal run too
CopyStepLogsEverySkip(c, existing, d, dryrun) ==
  LET name == Name(c.path)
      destination_path == DestinationPath(c)
      exists == destination_path \in DOMAIN d
      keep(act, logs) == [act |-> act, logs |-> logs, dest |-> d]
  IN IF name \in existing
     THEN keep("skip", <<Entry("INFO", "skipped_final", name)>>)
     ELSE IF exists /\ c.size = d[destination_path]
     THEN keep("skip", <<Entry("INFO", "skipped_staging", name)>>)
     ELSE LET pre == IF exists THEN <<Entry("INFO", "overwriting", name)>> ELSE <<>>
              act == IF exists THEN "overwrite" ELSE "copy"
          IN IF dryrun
             THEN keep(act, pre \o <<Entry("INFO", "would_copy", name)>>)
             ELSE IF c.kind = Dir
             THEN keep("raise", pre)
             ELSE [act |-> act,
                   logs |-> pre \o <<Entry("INFO", "copied", name)>>,
                   dest |-> Copy2(d, c, destination_path)]

\* variant: a name found in staging is skipped whatever its size
CopyStepSkipsAnyStagingName(c, existing, d, dryrun) ==
  LET name == Name(c.path)
      destination_path == DestinationPath(c)
      keep(act, logs) == [act |-> act, logs |-> logs, dest |-> d]
  IN IF name \in existing
     THEN keep("skip", IF dryrun THEN <<Entry("INFO", "skipped_final", name)>> ELSE <<>>)
     ELSE IF destination_path \in DOMAIN d
     THEN keep("skip", IF dryrun THEN <<Entry("INFO", "skipped_staging", name)>> ELSE <<>>)
     ELSE IF dryrun
     THEN keep("copy", <<Entry("INFO", "would_copy", name)>>)
     ELSE IF c.kind = Dir
     THEN keep("raise", <<>>)
     ELSE [act |-> "copy",
           logs |-> <<Entry("INFO", "copied", name)>>,
           dest |-> Copy2(d, c, destination_path)]

\* one iteration of the for loop on candidate c
CopyStepResult(c, existing, d, dryrun) ==
  LET name == Name(c.path)
      destination_path == DestinationPath(c)
      exists == destination_path \in DOMAIN d
      keep(act, logs) == [act |-> act, logs |-> logs, dest |-> d]
  IN IF name \in existing
     THEN keep("skip", IF dryrun THEN <<Entry("INFO", "skipped_final", name)>> ELSE <<>>)
     ELSE IF exists /\ c.size = d[destination_path]
     THEN keep("skip", IF dryrun THEN <<Entry("INFO", "skipped_staging", name)>> ELSE <<>>)
     ELSE LET pre == IF exists THEN <<Entry("INFO", "overwriting", name)>> ELSE <<>>
              act == IF exists THEN "overwrite" ELSE "copy"
          IN IF dryrun
             THEN keep(act, pre \o <<Entry("INFO", "would_copy", name)>>)
             ELSE IF c.kind = Dir
             THEN keep("raise", pre)
             ELSE [act |-> act,
                   logs |-> pre \o <<Entry("INFO", "copied", name)>>,
                   dest |-> Copy2(d, c, destination_path)]

\* ------------------------------------------------------------------- main
Snapshot == [src |-> src, destExists |-> destExists,
             stagingExists |-> stagingExists, dest |-> dest]

NoFirst == [dest |-> <<>>, copied |-> {}]

\* lines 164-165: create_config when the file is absent or on --reconfigure
Configure ==
  /\ pc = "start"
  /\ IF cfgFile.kind = "absent" \/ args.reconfigure
     THEN \E splice \in {"", SrcPath}, final \in {"", DstPath} :
            cfgFile' = JsonText(JsonObject(splice, final))
     ELSE cfgFile' = cfgFile
  /\ pc' = "load"
  /\ UNCHANGED <<args, config, src, destExists, stagingExists, dest, file_list,
                 existing_files, idx, log, copied, acts, run, init, first>>

\* line 167
LoadConfig ==
  /\ pc = "load"
  /\ config' = load_config(cfgFile)
  /\ log' = IF LoadFails(cfgFile)
            THEN Append(log, Entry("ERROR", "load_failed", NoName)) ELSE log
  /\ pc' = "resolve"
  /\ UNCHANGED <<args, cfgFile, src, destExists, stagingExists, dest, file_list,
                 existing_files, idx, copied, acts, run, init, first>>

\* lines 169-176: config.get on a value that is no dict raises AttributeError
Resolve ==
  /\ pc = "resolve"
  /\ IF config.type # "object"
     THEN pc' = "raised_config" /\ log' = log
     ELSE IF ~Truthy(Get(config, "splice")) \/ ~Truthy(Get(config, "final"))
     THEN /\ pc' = "unspecified"
          /\ log' = Append(log, Entry("ERROR", "not_specified", NoName))
     ELSE pc' = "final_dir" /\ log' = log
  /\ UNCHANGED <<args, cfgFile, config, src, destExists, stagingExists, dest,
                 file_list, existing_files, idx, copied, acts, run, init, first>>

\* lines 181-183
EnsureFinal ==
  /\ pc = "final_dir"
  /\ IF ~destExists
     THEN /\ destExists' = TRUE
          /\ log' = Append(log, Entry("INFO", "creating_final", NoName))
     ELSE UNCHANGED <<destExists, log>>
  /\ pc' = "scan"
  /\ UNCHANGED <<args, cfgFile, config, src, stagingExists, dest, file_list,
                 existing_files, idx, copied, acts, run, init, first>>

\* line 185
Scan ==
  /\ pc = "scan"
  /\ file_list' = get_audio_files(src, audio_extensions)
  /\ pc' = "copy"
  /\ UNCHANGED <<args, cfgFile, config, src, destExists, stagingExists, dest,
                 existing_files, idx, log, copied, acts, run, init, first>>

\* copy_files, lines 53-57
CopyInit ==
  /\ pc = "copy"
  /\ IF ~args.dryrun
     THEN destExists' = TRUE /\ stagingExists' = TRUE
     ELSE UNCHANGED <<destExists, stagingExists>>
  /\ existing_files' = BuildIndex(dest)
  /\ idx' = 1
  /\ copied' = {}
  /\ acts' = <<>>
  /\ pc' = "loop"
  /\ UNCHANGED <<args, cfgFile, config, src, dest, file_list, log, run, init, first>>

\* copy_files, lines 59-84: one iteration, or the end of the loop
CopyStep ==
  /\ pc = "loop"
  /\ IF idx > Len(file_list)
     THEN pc' = "done" /\ UNCHANGED <<dest, log, copied, acts, idx>>
     ELSE LET r == CopyStepResult(file_list[idx], existing_files, dest, args.dryrun)
          IN /\ dest' = r.dest
             /\ log' = log \o r.logs
             /\ copied' = IF ~args.dryrun /\ r.act \in {"copy", "overwrite"}
                          THEN copied \cup {idx} ELSE copied
             /\ acts' = Append(acts, r.act)
             /\ idx' = idx + 1
             /\ pc' = IF r.act = "raise" THEN "raised_copy" ELSE "loop"
  /\ UNCHANGED <<args, cfgFile, config, src, destExists, stagingExists,
                 file_list, existing_files, run, init, first>>

\* the copy step run again on the same source and destination
Rerun ==
  /\ pc \in {"done", "raised_copy"}
  /\ run = 1
  /\ ~args.dryrun
  /\ run' = 2
  /\ first' = [dest |-> dest, copied |-> {file_list[k] : k \in copied}]
  /\ copied' = {}
  /\ acts' = <<>>
  /\ pc' = "scan"
  /\ UNCHANGED <<args, cfgFile, config, src, destExists, stagingExists, dest,
                 file_list, existing_files, idx, log, init>>

Next ==
  \/ Configure
  \/ LoadConfig
  \/ Resolve
  \/ EnsureFinal
  \/ Scan
  \/ CopyInit
  \/ CopyStep
  \/ Rerun

\* ---------------------------------------------------------- initial states
RunPaths == {<<KWav>>, <<DirD, KWav>>, <<DirD, DirE, SMp3>>, <<NTxt>>}

\* regular files at these paths, and d/k.wav possibly a directory
RunNodes == {n \in NodesAt(RunPaths) : n.kind = Dir => n.path = <<DirD, KWav>>}

OutsidePaths == {<<LIB, KWav>>}
StagingPaths == {<<STAGING, KWav>>}

FilesOn(paths) == UNION {[D -> Sizes] : D \in SUBSET paths}

InitDest ==
  \/ destExists = FALSE /\ stagingExists = FALSE /\ dest = <<>>
  \/ destExists = TRUE /\ stagingExists = FALSE /\ dest \in FilesOn(OutsidePaths)
  \/ destExists = TRUE /\ stagingExists = TRUE
       /\ dest \in FilesOn(OutsidePaths \cup StagingPaths)

InitRest ==
  /\ pc = "start"
  /\ config = EmptyDict
  /\ file_list = <<>>
  /\ existing_files = {}
  /\ idx = 1
  /\ log = <<>>
  /\ copied = {}
  /\ acts = <<>>
  /\ run = 1
  /\ init = Snapshot
  /\ first = NoFirst

\* every preference file, on a small file system
InitConfigCases ==
  /\ cfgFile \in CfgFiles
  /\ args \in [dryrun : BOOLEAN, reconfigure : BOOLEAN]
  /\ src \in {<<>>, <<[path |-> <<KWav>>, kind |-> File, size |-> 1]>>}
  /\ \/ destExists = FALSE /\ stagingExists = FALSE /\ dest = <<>>
     \/ destExists = TRUE /\ stagingExists = FALSE /\ dest = <<>>

\* every file system, with a usable preference file
InitRunCases ==
  /\ cfgFile = ValidCfg
  /\ args \in [dryrun : BOOLEAN, reconfigure : {FALSE}]
  /\ src \in Walks(RunNodes)
  /\ InitDest

Init == (InitConfigCases \/ InitRunCases) /\ InitRest

Spec == Init /\ [][Next]_vars

\* ------------------------------------------------- the scanner on its own
ScanPaths ==
  {<<KWav>>, <<KWavUp>>, <<DirD, SMp3>>, <<DirD, DirE, TAiff>>, <<NTxt>>,
   <<DotWav>>, <<BareWav>>, <<KWavDot>>, <<ATarWav>>, <<DirD, KWav>>,
   <<KWav, SMp3>>}

\* main at line 185, about to scan
InitScan ==
  /\ pc = "scan"
  /\ cfgFile = ValidCfg
  /\ config = load_config(ValidCfg)
  /\ args \in [dryrun : BOOLEAN, reconfigure : {FALSE}]
  /\ src \in Walks(NodesAt(ScanPaths))
  /\ destExists = TRUE /\ stagingExists = FALSE /\ dest = <<>>
  /\ file_list = <<>>
  /\ existing_files = {}
  /\ idx = 1
  /\ log = <<>>
  /\ copied = {}
  /\ acts = <<>>
  /\ run = 1
  /\ init = Snapshot
  /\ first = NoFirst

NextScan == Scan

SpecScan == InitScan /\ [][NextScan]_vars

\* ================================================================= claims
Processing == pc = "loop" /\ idx <= Len(file_list)
Cand == file_list[idx]
StagingPathOf(c) == <<STAGING, c.path[Len(c.path)]>>
OutsideStaging(p) == p[1] # STAGING
NamesOutside(d) == {p[Len(p)] : p \in {q \in DOMAIN d : OutsideStaging(q)}}
NamesInStaging(d) == {p[Len(p)] : p \in {q \in DOMAIN d : ~OutsideStaging(q)}}
SameFiles(d, e) == DOMAIN d = DOMAIN e /\ \A p \in DOMAIN d : d[p] = e[p]
FileSystemUntouched ==
  /\ src = init.src
  /\ destExists = init.destExists
  /\ stagingExists = init.stagingExists
  /\ SameFiles(dest, init.dest)

\* C1: a run with the dry-run flag set never creates the destination root,
\* never creates the staging folder and never writes a file under the
\* destination, whatever the file system was at the start.
C1_DryRunCreatesNothing ==
  args.dryrun =>
    /\ destExists = init.destExists
    /\ stagingExists = init.stagingExists
    /\ SameFiles(dest, init.dest)

\* C2: a candidate whose name is the name of a file that was in the
\* destination tree outside staging when the run started is never copied
\* into staging, whatever the two sizes, dry run or not.
C2_NameOutsideStagingNeverCopied ==
  /\ \A k \in copied : Last(file_list[k].path) \notin NamesOutside(init.dest)
  /\ \A n \in NamesOutside(init.dest) :
       IF <<STAGING, n>> \in DOMAIN init.dest
       THEN <<STAGING, n>> \in DOMAIN dest /\ dest[<<STAGING, n>>] = init.dest[<<STAGING, n>>]
       ELSE <<STAGING, n>> \notin DOMAIN dest

\* a candidate named like a file outside staging, of another size, has been
\* passed over by a finished normal run
C2_Witness ==
  /\ pc = "done"
  /\ ~args.dryrun
  /\ \E k \in 1..Len(file_list) : \E p \in DOMAIN init.dest :
       /\ OutsideStaging(p)
       /\ Last(p) = Last(file_list[k].path)
       /\ file_list[k].kind = File
       /\ init.dest[p] # file_list[k].size
       /\ StagingPathOf(file_list[k]) \notin DOMAIN dest

\* C3: in a normal run, a candidate whose name was in staging only at the
\* start is copied over the staging file when the sizes differ and skipped,
\* the staging file unchanged, when they are equal.
C3_StagingOnlyNameOverwrittenOrSkipped ==
  (pc = "done" /\ ~args.dryrun /\ run = 1) =>
    \A k \in 1..Len(file_list) :
      LET c == file_list[k]
          sp == StagingPathOf(c)
      IN (/\ c.kind = File
          /\ sp \in DOMAIN init.dest
          /\ Last(c.path) \notin NamesOutside(init.dest)
          /\ \A j \in 1..Len(file_list) :
               Last(file_list[j].path) = Last(c.path) => j = k)
         => IF init.dest[sp] # c.size
            THEN k \in copied /\ dest[sp] = c.size
            ELSE k \notin copied /\ dest[sp] = init.dest[sp]

\* C4: the copy step run a second time on the same source and destination
\* copies none of the candidates the first run copied, and leaves the
\* destination tree as the first run left it.
C4_SecondRunCopiesNothing ==
  run = 2 =>
    /\ \A k \in copied : file_list[k] \notin first.copied
    /\ SameFiles(dest, first.dest)
    /\ pc = "done" => \A c \in first.copied :
         \E k \in 1..Len(file_list) : file_list[k] = c /\ acts[k] = "skip"

\* C5: the list get_audio_files returns holds exactly the regular files of
\* the source tree whose extension, compared without case, is .wav, .mp3 or
\* .aiff.
C5_ScanReturnsExactlyAudioFiles ==
  pc = "copy" =>
    {file_list[k] : k \in 1..Len(file_list)} =
      {n \in SeqToSet(src) : /\ n.kind = File
                   /\ Len(n.path[Len(n.path)]) >= 2
                   /\ n.path[Len(n.path)] # DotWav
                   /\ Lower(Last(Last(n.path))) \in {"wav", "mp3", "aiff"}}

UnusablePreferences ==
  \/ cfgFile.kind \in {"absent", "garbage"}
  \/ cfgFile.value.type # "object"
  \/ cfgFile.value.splice \in {NoneValue, ""}
  \/ cfgFile.value.final \in {NoneValue, ""}

C7_UnusablePreferencesReported ==
  (pc \notin {"start", "load", "resolve"} /\ UnusablePreferences) =>
    /\ pc = "unspecified"
    /\ log # <<>> /\ Last(log) = Entry("ERROR", "not_specified", NoName)
    /\ FileSystemUntouched
    /\ file_list = <<>>

\* C8: a candidate skipped as a duplicate (its name in the destination index,
\* or its name in staging with its size) is not copied, and an informational
\* entry reporting the skip is logged before the next candidate, in a dry
\* run and in a normal run alike.
IsDuplicate ==
  \/ Last(Cand.path) \in existing_files
  \/ /\ StagingPathOf(Cand) \in DOMAIN dest
     /\ dest[StagingPathOf(Cand)] = Cand.size

SkipLogged ==
  /\ Len(log') = Len(log) + 1
  /\ SubSeq(log', 1, Len(log)) = log
  /\ Last(log').level = "INFO"
  /\ Last(log').msg \in {"skipped_final", "skipped_staging"}
  /\ Last(log').name = Last(Cand.path)

NotCopied == SameFiles(dest', dest) /\ copied' = copied /\ idx' = idx + 1

RECURSIVE NormalRunActs(_, _, _, _)
NormalRunActs(list, k, existing, d) ==
  IF k > Len(list) THEN <<>>
  ELSE LET r == CopyStepResult(list[k], existing, d, FALSE)
       IN IF r.act = "raise" THEN <<r.act>>
          ELSE <<r.act>> \o NormalRunActs(list, k + 1, existing, r.dest)

C9_DryRunReportsWhatNormalRunDoes ==
  (/\ pc = "done"
   /\ args.dryrun
   /\ \A k \in 1..Len(file_list) : file_list[k].kind = File)
  => acts = NormalRunActs(file_list, 1, existing_files, dest)

\* C10: the index is built once, after staging is created, and is not
\* updated in the loop, while the staging path is looked up afresh: in a
\* normal run the first candidate of a name that was nowhere in the
\* destination is copied, a later one is copied over the staging file if and
\* only if its size differs from that file's size at that moment, and a name
\* in the index is never copied.
\* The copies are stated for candidates that are regular files (shutil.copy2
\* raises on a directory).
C10_IndexFrozen ==
  /\ (pc = "copy" /\ pc' = "loop") =>
       /\ existing_files' = NamesOutside(dest) \cup NamesInStaging(dest)
       /\ ~args.dryrun => stagingExists'
  /\ pc = "loop" => existing_files' = existing_files

C10_LiveStagingCheck ==
  (Processing /\ ~args.dryrun /\ Cand.kind = File) =>
    LET sp == StagingPathOf(Cand)
    IN IF Last(Cand.path) \in existing_files
       THEN SameFiles(dest', dest) /\ copied' = copied
       ELSE IF sp \notin DOMAIN dest \/ dest[sp] # Cand.size
       THEN /\ idx \in copied'
            /\ dest' = [p \in DOMAIN dest \cup {sp} |->
                          IF p = sp THEN Cand.size ELSE dest[p]]
       ELSE SameFiles(dest', dest) /\ copied' = copied

C10_FirstOfNewNameCopied ==
  (~args.dryrun /\ pc \in {"loop", "done", "raised_copy"}) =>
    \A k \in 1..Len(file_list) :
      (/\ k < idx
       /\ file_list[k].kind = File
       /\ Last(file_list[k].path) \notin existing_files
       /\ \A j \in 1..(k - 1) : Last(file_list[j].path) # Last(file_list[k].path))
      => k \in copied

====
